---- MODULE Spec2Model ----
(***************************************************************************)
(* Model of scripts/jobs/build-release.js: the release build job.          *)
(*                                                                         *)
(* buildRelease(id) loads one Release record, wraps it in a ReleaseBuilder *)
(* and runs build(): the state-machine driver that (re)starts a build on   *)
(* the external pipeline, polls it with a bounded retry budget, and        *)
(* persists the outcome on the record.                                     *)
(*                                                                         *)
(* Every `await` of build() is one step of the model, so a crash of the    *)
(* process or a rejected external call can fall between any two of them.   *)
(***************************************************************************)
EXTENDS Integers, Sequences, FiniteSets, TLC

(***************************************************************************)
(* Bounds of the model and configuration values.                           *)
(***************************************************************************)
\* config.azureDevops.check.retries: the polling budget of one invocation.
retries == 3
\* Number of builds the pipeline service accepts in one behaviour.
MaxBuilds == 3
\* Largest number of markers that occur together in one fetched log text.
MaxMarkers == 2
\* Longest package name drawn as an input of getBuildName.
MaxNameLen == 3
\* config.azureDevops.check.retryIntervalStep (time units).
retryIntervalStep == 2
\* config.azureDevops.check.duration (time units): the fixed pre-poll delay.
duration == 5

(***************************************************************************)
(* Enumerations.                                                           *)
(***************************************************************************)
\* ReleaseState (app/models/common).
ReleaseState ==
  [pending |-> "pending", building |-> "building",
   succeeded |-> "succeeded", failed |-> "failed"]

\* ReleaseReason (app/models/common); the empty string is "no reason".
ReleaseReason ==
  [timeout |-> "timeout", publishConflict |-> "publishConflict",
   nonPackage |-> "nonPackage", badGateway |-> "badGateway",
   serverError |-> "serverError"]

\* BuildStatus of azure-devops-node-api.
BuildStatus ==
  [NotStarted |-> "NotStarted", InProgress |-> "InProgress",
   Completed |-> "Completed", Cancelling |-> "Cancelling"]

\* BuildResult of azure-devops-node-api; "undefined" is the absent field.
BuildResult ==
  [Succeeded |-> "Succeeded", PartiallySucceeded |-> "PartiallySucceeded",
   Failed |-> "Failed", Canceled |-> "Canceled", undefined |-> "undefined"]

StatusValues == {BuildStatus[k] : k \in DOMAIN BuildStatus}
ResultValues == {BuildResult[k] : k \in DOMAIN BuildResult}

\* The substrings getReasonFromPublishLog looks for.  A log text is modelled
\* by the set of these substrings that it contains.
Markers ==
  {"EPUBLISHCONFLICT", "ENOENT", "error path package.json",
   "error code E502", "error code E500"}

\* The log texts the log fetcher can return in the state machine.
LogTexts == {t \in SUBSET Markers : Cardinality(t) <= MaxMarkers}

\* text.includes(marker)
includes(text, marker) == marker \in text

\* The value of `build` when it is null.
NullBuild == [id |-> 0, status |-> "null", result |-> "null"]

\* The build objects getBuild can return for build id n.
Builds(n) == [id : {n}, status : StatusValues, result : ResultValues]

VARIABLES
  db,          \* the persisted Release record
  release,     \* this.release: the in-memory Release object
  buildApi,    \* this.buildApi: TRUE once the api instance is prepared
  build,       \* the local `build` of build() / checkBuildPipelines()
  i,           \* the loop index of checkBuildPipelines()
  reason,      \* the local `reason` of build()
  publishLog,  \* the local `publishLog` of build()
  pc,          \* the position of the job
  queued,      \* the number of builds queued on the pipeline so far
  loaded,      \* the record as fetched at the start of the invocation
  trace,       \* the external calls and updates of the invocation, in order
  result,      \* how the invocation ended
  request,     \* the parameters of the build request (lines 125-133)
  terminal     \* the builds that a poll has seen Completed or Cancelling

vars ==
  <<db, release, buildApi, build, i, reason, publishLog, pc, queued,
    loaded, trace, result, request, terminal>>

locals == <<buildApi, build, i, reason, publishLog>>

(***************************************************************************)
(* Events of the trace.                                                    *)
(***************************************************************************)
NoFields == [k \in {} |-> ""]

Event(op, id, status, fields, ms) ==
  [op |-> op, id |-> id, status |-> status, fields |-> fields, ms |-> ms]

UpdateEvent(fields) == Event("update", "", "", fields, 0)
CallEvent(op) == Event(op, "", "", NoFields, 0)
QueueEvent(id) == Event("queueBuild", id, "", NoFields, 0)
GetBuildEvent(id, status) == Event("getBuild", id, status, NoFields, 0)
SleepEvent(ms) == Event("sleep", "", "", NoFields, ms)

(***************************************************************************)
(* Release.update(fields): an atomic partial update of the record; the     *)
(* fields named are overwritten, in the store and on the object.           *)
(***************************************************************************)
Merge(r, fields) ==
  [k \in DOMAIN r |-> IF k \in DOMAIN fields THEN fields[k] ELSE r[k]]

update(fields) ==
  /\ db' = Merge(db, fields)
  /\ release' = Merge(release, fields)
  /\ trace' = Append(trace, UpdateEvent(fields))

(***************************************************************************)
(* Conditions and update payloads of build().                              *)
(***************************************************************************)
\* Faulty variants of the skip test: the wrong state, or a stray condition.
ShouldSkip_failed(r) == r.state = ReleaseState.failed
ShouldSkip_noReason(r) == r.state = ReleaseState.succeeded /\ r.reason = ""

\* line 37
ShouldSkip(r) == r.state = ReleaseState.succeeded

\* Faulty variant: the timeout test is made on the wrong state.
NeedsResume_pending(r) ==
  r.state = ReleaseState.pending /\ r.reason = ReleaseReason.timeout

\* line 42
NeedsResume(r) ==
  r.state = ReleaseState.failed /\ r.reason = ReleaseReason.timeout

\* Faulty variant: every unfinished release is started afresh.
NeedsFresh_unfinished(r) == r.state # ReleaseState.succeeded

\* line 45
NeedsFresh(r) ==
  r.state = ReleaseState.pending \/ r.state = ReleaseState.failed

\* line 44
ResumeFields == [state |-> ReleaseState.building]

\* Faulty variant: build_id is not cleared.
FreshFields_keepId == [state |-> ReleaseState.building]

\* line 47
FreshFields == [state |-> ReleaseState.building, build_id |-> ""]

\* Faulty variant: the negation is dropped.
NoBuildId_inverted(r) == r.build_id # ""

\* line 52: !this.release.build_id
NoBuildId(r) == r.build_id = ""

\* line 54: build.id + ''
BuildIdFields(b) == [build_id |-> ToString(b.id)]

\* Faulty variant: the reason is not recorded.
TimeoutFields_noReason == [state |-> ReleaseState.failed]

\* line 61
TimeoutFields ==
  [state |-> ReleaseState.failed, reason |-> ReleaseReason.timeout]

\* line 64
IsSucceeded(b) ==
  b.status = BuildStatus.Completed /\ b.result = BuildResult.Succeeded

\* Faulty variant: success also resets the reason.
SucceededFields_resetReason ==
  [state |-> ReleaseState.succeeded, reason |-> ""]

\* line 66
SucceededFields == [state |-> ReleaseState.succeeded]

\* Faulty variant: a failure also forgets the build.
FailedFields_clearId == [state |-> ReleaseState.failed, build_id |-> ""]

\* line 70
FailedFields == [state |-> ReleaseState.failed]

\* Faulty variant: the log is fetched for every completed build that did
\* not succeed.
IsCompletedFailed_notSucceeded(b) ==
  b.status = BuildStatus.Completed /\ b.result # BuildResult.Succeeded

\* line 73
IsCompletedFailed(b) ==
  b.status = BuildStatus.Completed /\ b.result = BuildResult.Failed

\* line 79
LogFields(text, rsn) == [publish_log |-> text, reason |-> rsn]

\* Faulty variant: serverError is not retried.
IsRetryReason_onlyGateway(rsn) == rsn = ReleaseReason.badGateway

\* line 85: the reasons that make the job throw
IsRetryReason(rsn) ==
  ~(rsn # ReleaseReason.badGateway /\ rsn # ReleaseReason.serverError)

\* line 149
IsTerminalStatus(b) ==
  b.status = BuildStatus.Completed \/ b.status = BuildStatus.Cancelling

\* Faulty variant: the loop condition never fails.
LoopContinues_unbounded(n) == n >= 0

\* Faulty variant: off by one.
LoopContinues_offByOne(n) == n <= retries

\* line 142
LoopContinues(n) == n < retries

\* Faulty variant: exponential instead of linear.
BackoffDelay_exponential(n) == retryIntervalStep * (2 ^ n)

\* line 151
BackoffDelay(n) == retryIntervalStep * (n + 1)

\* Faulty variant: the E502 rule is tried before the EPUBLISHCONFLICT rule.
getReasonFromPublishLog_gatewayFirst(text) ==
  IF includes(text, "error code E502")
    THEN ReleaseReason.badGateway
  ELSE IF includes(text, "EPUBLISHCONFLICT")
    THEN ReleaseReason.publishConflict
  ELSE IF includes(text, "ENOENT") /\ includes(text, "error path package.json")
    THEN ReleaseReason.nonPackage
  ELSE IF includes(text, "error code E500")
    THEN ReleaseReason.serverError
  ELSE ""

\* lines 103-113
getReasonFromPublishLog(text) ==
  IF includes(text, "EPUBLISHCONFLICT")
    THEN ReleaseReason.publishConflict
  ELSE IF includes(text, "ENOENT") /\ includes(text, "error path package.json")
    THEN ReleaseReason.nonPackage
  ELSE IF includes(text, "error code E502")
    THEN ReleaseReason.badGateway
  ELSE IF includes(text, "error code E500")
    THEN ReleaseReason.serverError
  ELSE ""

(***************************************************************************)
(* Strings that are taken apart are sequences of one-character strings.    *)
(***************************************************************************)
Digit == <<"0", "1", "2", "3", "4", "5", "6", "7", "8", "9">>

\* The decimal form of a natural number: releaseId in a concatenation.
RECURSIVE NumberToString(_)
NumberToString(n) ==
  IF n < 10 THEN <<Digit[n + 1]>>
  ELSE NumberToString(n \div 10) \o <<Digit[(n % 10) + 1]>>

\* s.startsWith(c)
startsWith(s, c) == Len(s) >= 1 /\ s[1] = c

\* s.substr(from) and s.substr(0, n), from counted from 0
substrFrom(s, from) == SubSeq(s, from + 1, Len(s))
substr(s, n) == SubSeq(s, 1, IF Len(s) < n THEN Len(s) ELSE n)

\* The character class of the regular expression of line 172.
IllegalCharacters == {"/", ":", "<", ">", "\\", "|", "?", "@", "*"}

\* s.replace(/[\/:<>\\|\?@\*]/g, '_')
replaceIllegal(s) ==
  [k \in 1..Len(s) |-> IF s[k] \in IllegalCharacters THEN "_" ELSE s[k]]

\* Faulty variant: a digit of the headroom for the runtime suffix is lost.
BuildNameLength_noHeadroom == 255 - 5

\* line 173
BuildNameLength == 255 - 55

\* lines 165-174
getBuildName(releaseId, packageName, packageVer) ==
  LET joined == packageName \o <<"#">> \o packageVer
      stripped == IF startsWith(joined, "@") THEN substrFrom(joined, 1)
                  ELSE joined
      prefixed == <<"r", "e", "l", "#">> \o NumberToString(releaseId)
                    \o <<"-">> \o stripped
  IN  substr(replaceIllegal(prefixed), BuildNameLength)

\* lines 125-133: the parameters of queueBuild that build() computes
BuildRequest(releaseId, packageName, packageVer) ==
  [id |-> releaseId, package_name |-> packageName,
   package_ver |-> packageVer,
   build_name |-> getBuildName(releaseId, packageName, packageVer)]

\* The release and its package: the immutable fields of the records.
TheRelease == [id |-> 42, version |-> <<"1", ".", "2", ".", "3">>]
ThePackage ==
  [name |-> <<"@", "s", "c", "o", "p", "e", "/", "p", "k", "g">>]

\* No build request was made yet.
NoRequest ==
  [id |-> TheRelease.id, package_name |-> << >>, package_ver |-> << >>,
   build_name |-> << >>]

(***************************************************************************)
(* Initial state: the release was created externally, in state pending.    *)
(***************************************************************************)
InitRelease ==
  [id |-> TheRelease.id, version |-> TheRelease.version,
   state |-> ReleaseState.pending, build_id |-> "", reason |-> "",
   publish_log |-> {}]

Init ==
  /\ db = InitRelease
  /\ release = InitRelease
  /\ buildApi = FALSE
  /\ build = NullBuild
  /\ i = 0
  /\ reason = ""
  /\ publishLog = {}
  /\ pc = "idle"
  /\ queued = 0
  /\ loaded = InitRelease
  /\ trace = << >>
  /\ result = "none"
  /\ request = NoRequest
  /\ terminal = {}

(***************************************************************************)
(* buildRelease(id), lines 21-25 and the constructor, lines 30-33.         *)
(***************************************************************************)
buildRelease ==
  /\ pc \in {"idle", "done"}
  /\ release' = db
  /\ loaded' = db
  /\ buildApi' = FALSE
  /\ build' = NullBuild
  /\ i' = 0
  /\ reason' = ""
  /\ publishLog' = {}
  /\ trace' = << >>
  /\ result' = "running"
  /\ pc' = "build"
  /\ UNCHANGED <<db, queued>>
  /\ UNCHANGED request
  /\ UNCHANGED terminal

\* The end of an invocation: build() returned or threw.
Ends(how) ==
  /\ pc' = "done"
  /\ result' = how

(***************************************************************************)
(* build(), lines 35-94.                                                   *)
(***************************************************************************)
\* lines 37-40
Skip ==
  /\ pc = "build"
  /\ ShouldSkip(release)
  /\ Ends("returned")
  /\ UNCHANGED <<db, release, locals, queued, loaded, trace>>
  /\ UNCHANGED request
  /\ UNCHANGED terminal

\* lines 42-44
Resume ==
  /\ pc = "build"
  /\ ~ShouldSkip(release)
  /\ NeedsResume(release)
  /\ update(ResumeFields)
  /\ pc' = "getBuildApi"
  /\ UNCHANGED <<locals, queued, loaded, result>>
  /\ UNCHANGED request
  /\ UNCHANGED terminal

\* lines 45-47
Fresh ==
  /\ pc = "build"
  /\ ~ShouldSkip(release)
  /\ ~NeedsResume(release)
  /\ NeedsFresh(release)
  /\ update(FreshFields)
  /\ pc' = "getBuildApi"
  /\ UNCHANGED <<locals, queued, loaded, result>>
  /\ UNCHANGED request
  /\ UNCHANGED terminal

\* lines 42-47, neither branch taken
Proceed ==
  /\ pc = "build"
  /\ ~ShouldSkip(release)
  /\ ~NeedsResume(release)
  /\ ~NeedsFresh(release)
  /\ pc' = "getBuildApi"
  /\ UNCHANGED <<db, release, locals, queued, loaded, trace, result>>
  /\ UNCHANGED request
  /\ UNCHANGED terminal

\* line 49 and lines 157-162; then the test of line 52
getBuildApi ==
  /\ pc = "getBuildApi"
  /\ buildApi' = TRUE
  /\ trace' = Append(trace, CallEvent("getBuildApi"))
  /\ pc' = IF NoBuildId(release) THEN "create" ELSE "check"
  /\ UNCHANGED <<db, release, build, i, reason, publishLog, queued, loaded,
                 result>>
  /\ UNCHANGED request
  /\ UNCHANGED terminal

\* line 53 and lines 116-136: the pipeline registers a new build
CreateBuildPipelines ==
  /\ pc = "create"
  /\ queued < MaxBuilds
  /\ queued' = queued + 1
  /\ build' = [id |-> queued + 1, status |-> BuildStatus.NotStarted,
               result |-> BuildResult.undefined]
  /\ trace' = Append(trace, QueueEvent(ToString(queued + 1)))
  /\ request' = BuildRequest(release.id, ThePackage.name, release.version)
  /\ pc' = "setBuildId"
  /\ UNCHANGED <<db, release, buildApi, i, reason, publishLog, loaded,
                 result>>
  /\ UNCHANGED terminal

\* line 54
SetBuildId ==
  /\ pc = "setBuildId"
  /\ update(BuildIdFields(build))
  /\ pc' = "sleep"
  /\ UNCHANGED <<locals, queued, loaded, result>>
  /\ UNCHANGED request
  /\ UNCHANGED terminal

\* line 55
PrePollSleep ==
  /\ pc = "sleep"
  /\ trace' = Append(trace, SleepEvent(duration))
  /\ pc' = "check"
  /\ UNCHANGED <<db, release, locals, queued, loaded, result>>
  /\ UNCHANGED request
  /\ UNCHANGED terminal

(***************************************************************************)
(* checkBuildPipelines(), lines 140-154.                                   *)
(***************************************************************************)
\* lines 142-150: one status fetch; a terminal status returns the build
getBuild ==
  /\ pc = "check"
  /\ LoopContinues(i)
  /\ \E n \in 1..queued : \E b \in Builds(n) :
       /\ ToString(n) = release.build_id
       /\ build' = b
       /\ trace' = Append(trace, GetBuildEvent(release.build_id, b.status))
       /\ pc' = IF IsTerminalStatus(b) THEN "outcome" ELSE "backoff"
       /\ terminal' = IF b.status \in {BuildStatus.Completed,
                                        BuildStatus.Cancelling}
                        THEN terminal \cup {n} ELSE terminal
  /\ UNCHANGED <<db, release, buildApi, i, reason, publishLog, queued,
                 loaded, result>>
  /\ UNCHANGED request

\* line 151 and the i++ of line 142
Backoff ==
  /\ pc = "backoff"
  /\ trace' = Append(trace, SleepEvent(BackoffDelay(i)))
  /\ i' = i + 1
  /\ pc' = "check"
  /\ UNCHANGED <<db, release, buildApi, build, reason, publishLog, queued,
                 loaded, result>>
  /\ UNCHANGED request
  /\ UNCHANGED terminal

\* lines 142 and 153: out of retries, return null
OutOfRetries ==
  /\ pc = "check"
  /\ ~LoopContinues(i)
  /\ build' = NullBuild
  /\ pc' = "outcome"
  /\ UNCHANGED <<db, release, buildApi, i, reason, publishLog, queued,
                 loaded, trace, result>>
  /\ UNCHANGED request
  /\ UNCHANGED terminal

(***************************************************************************)
(* build(), the outcomes, lines 59-93.                                     *)
(***************************************************************************)
\* lines 59-61
Timeout ==
  /\ pc = "outcome"
  /\ build = NullBuild
  /\ update(TimeoutFields)
  /\ pc' = "throwTimeout"
  /\ UNCHANGED <<locals, queued, loaded, result>>
  /\ UNCHANGED request
  /\ UNCHANGED terminal

\* line 63
ThrowTimeout ==
  /\ pc = "throwTimeout"
  /\ Ends("thrown")
  /\ UNCHANGED <<db, release, locals, queued, loaded, trace>>
  /\ UNCHANGED request
  /\ UNCHANGED terminal

\* lines 64-67
Succeeded ==
  /\ pc = "outcome"
  /\ build # NullBuild
  /\ IsSucceeded(build)
  /\ update(SucceededFields)
  /\ Ends("returned")
  /\ UNCHANGED <<locals, queued, loaded>>
  /\ UNCHANGED request
  /\ UNCHANGED terminal

\* lines 68-73
Failed ==
  /\ pc = "outcome"
  /\ build # NullBuild
  /\ ~IsSucceeded(build)
  /\ update(FailedFields)
  /\ reason' = ""
  /\ pc' = IF IsCompletedFailed(build) THEN "getPublishLog" ELSE "report"
  /\ UNCHANGED <<buildApi, build, i, publishLog, queued, loaded, result>>
  /\ UNCHANGED request
  /\ UNCHANGED terminal

\* lines 75-77 and 97-100
getPublishLog ==
  /\ pc = "getPublishLog"
  /\ \E text \in LogTexts :
       /\ publishLog' = text
       /\ reason' = getReasonFromPublishLog(text)
  /\ trace' = Append(trace, CallEvent("getPublishLog"))
  /\ pc' = "updateLog"
  /\ UNCHANGED <<db, release, buildApi, build, i, queued, loaded, result>>
  /\ UNCHANGED request
  /\ UNCHANGED terminal

\* line 79
UpdateLog ==
  /\ pc = "updateLog"
  /\ update(LogFields(publishLog, reason))
  /\ pc' = "report"
  /\ UNCHANGED <<locals, queued, loaded, result>>
  /\ UNCHANGED request
  /\ UNCHANGED terminal

\* lines 81-92
Report ==
  /\ pc = "report"
  /\ Ends(IF IsRetryReason(reason) THEN "thrown" ELSE "returned")
  /\ UNCHANGED <<db, release, locals, queued, loaded, trace>>
  /\ UNCHANGED request
  /\ UNCHANGED terminal

(***************************************************************************)
(* The environment: an external call rejects, or the process dies.         *)
(***************************************************************************)
\* The awaited call of lines 49, 53, 143 or 75 rejects: build() rethrows.
CallFails ==
  /\ \/ pc \in {"getBuildApi", "create", "getPublishLog"}
     \/ pc = "check" /\ LoopContinues(i)
  /\ Ends("error")
  /\ UNCHANGED <<db, release, locals, queued, loaded, trace>>
  /\ UNCHANGED request
  /\ UNCHANGED terminal

\* The process dies between two steps.
Crash ==
  /\ pc \notin {"idle", "done"}
  /\ Ends("crashed")
  /\ UNCHANGED <<db, release, locals, queued, loaded, trace>>
  /\ UNCHANGED request
  /\ UNCHANGED terminal

Next ==
  \/ buildRelease
  \/ Skip
  \/ Resume
  \/ Fresh
  \/ Proceed
  \/ getBuildApi
  \/ CreateBuildPipelines
  \/ SetBuildId
  \/ PrePollSleep
  \/ getBuild
  \/ Backoff
  \/ OutOfRetries
  \/ Timeout
  \/ ThrowTimeout
  \/ Succeeded
  \/ Failed
  \/ getPublishLog
  \/ UpdateLog
  \/ Report
  \/ CallFails
  \/ Crash

Spec == Init /\ [][Next]_vars

(***************************************************************************)
(* Reading the trace of the current invocation.                            *)
(***************************************************************************)
Calls(op) == {k \in 1..Len(trace) : trace[k].op = op}
Updates == Calls("update")
Polls == Calls("getBuild")
Queues == Calls("queueBuild")

\* The invocation has started and its record was loaded.
Invoked == pc # "idle"

\* build() ran to its own end: it returned, or it threw by its own `throw`.
Finished == pc = "done" /\ result \in {"returned", "thrown"}

\* The statuses that end the polling loop.
TerminalStatuses == {"Completed", "Cancelling"}

\* The record loaded by the invocation asks for a resumption / a fresh start.
LoadedTimedOut == loaded.state = "failed" /\ loaded.reason = "timeout"
LoadedFresh ==
  \/ loaded.state = "pending"
  \/ loaded.state = "failed" /\ loaded.reason # "timeout"

(***************************************************************************)
(* C1: an invocation on a release loaded in state succeeded makes no       *)
(* external call and no update, leaves the record as it was, and ends      *)
(* without signalling a failure.                                           *)
(***************************************************************************)
C1_SucceededIsNoOp ==
  (Invoked /\ loaded.state = "succeeded") =>
    /\ trace = << >>
    /\ db = loaded
    /\ buildApi = FALSE
    /\ pc \in {"build", "done"}
    /\ result \notin {"thrown", "error"}

C1_Witness ==
  /\ pc = "done"
  /\ loaded.state = "succeeded"
  /\ result = "returned"

(***************************************************************************)
(* C2: once the persisted state is succeeded, no step changes any field of *)
(* the persisted record.                                                   *)
(***************************************************************************)
C2_SucceededIsFinal ==
  [][db.state = "succeeded" => db' = db]_vars

\* A succeeded release was invoked again and that invocation has ended.
C2_Witness ==
  /\ pc = "done"
  /\ db.state = "succeeded"
  /\ loaded.state = "succeeded"
  /\ db.reason = "timeout"

BudgetExhausted ==
  /\ Cardinality(Polls) = retries
  /\ \A k \in Polls : trace[k].status \notin TerminalStatuses

TimeoutPersisted ==
  /\ trace[Len(trace)].op = "update"
  /\ DOMAIN trace[Len(trace)].fields = {"state", "reason"}
  /\ db.state = "failed"
  /\ db.reason = "timeout"
  /\ \A k \in Polls : db.build_id = trace[k].id

C5_RetryBudgetExhausted ==
  /\ (BudgetExhausted /\ Finished) => (result = "thrown" /\ TimeoutPersisted)
  /\ (BudgetExhausted /\ pc = "throwTimeout") => TimeoutPersisted
  /\ (BudgetExhausted /\ pc = "done") => result \in {"thrown", "crashed"}

C5_Witness ==
  /\ BudgetExhausted
  /\ Finished
  /\ result = "thrown"
  /\ loaded.state = "pending"

(***************************************************************************)
(* C6: for the outcome completed + failed, state failed is never persisted *)
(* without reason and publish_log being written by the same update: once   *)
(* the outcome's update of state is in the record, so are its reason and   *)
(* its publish_log.                                                        *)
(***************************************************************************)
LastPoll == CHOOSE k \in Polls : \A l \in Polls : l <= k

\* The updates made after the last poll: the updates of the outcome.
OutcomeUpdates == {k \in Updates : Polls # {} /\ k > LastPoll}

FailedOutcomePersisted ==
  /\ build.status = "Completed"
  /\ build.result = "Failed"
  /\ \E k \in OutcomeUpdates :
       /\ "state" \in DOMAIN trace[k].fields
       /\ trace[k].fields.state = "failed"

ReasonAndLogPersisted ==
  \E k \in OutcomeUpdates :
    {"reason", "publish_log"} \subseteq DOMAIN trace[k].fields

C6_FailedOutcomeAtomic ==
  FailedOutcomePersisted => ReasonAndLogPersisted

(***************************************************************************)
(* C7: an invocation that ran to its end throws exactly when polling timed *)
(* out or the build completed as failed with a log classified badGateway   *)
(* or serverError; success, cancellation and the other classifications     *)
(* return; and the outcome is in the record before the job throws.         *)
(***************************************************************************)
RetryReasons == {"badGateway", "serverError"}

PolledCompletedFailed ==
  build.status = "Completed" /\ build.result = "Failed"

PolledSucceeded ==
  build.status = "Completed" /\ build.result = "Succeeded"

C7_FailureSignalled ==
  /\ (Finished /\ Polls # {}) =>
       /\ result = "thrown" <=>
            \/ build = NullBuild
            \/ /\ PolledCompletedFailed
               /\ getReasonFromPublishLog(publishLog) \in RetryReasons
       /\ result = "thrown" =>
            /\ db.state = "failed"
            /\ build = NullBuild => db.reason = "timeout"
            /\ build # NullBuild =>
                 /\ db.reason \in RetryReasons
                 /\ db.reason = getReasonFromPublishLog(publishLog)
                 /\ db.publish_log = publishLog
       /\ result = "returned" =>
            db.state = IF PolledSucceeded THEN "succeeded" ELSE "failed"
  /\ pc \in {"throwTimeout", "report"} => db.state = "failed"

C7_Witness ==
  /\ Finished
  /\ result = "thrown"
  /\ PolledCompletedFailed
  /\ db.reason = "serverError"

\* The other side of C7: a classified, non-retried failure returns.
C7_WitnessReturned ==
  /\ Finished
  /\ result = "returned"
  /\ PolledCompletedFailed
  /\ db.reason = "publishConflict"

(***************************************************************************)
(* C8: on completed + succeeded the last update writes the state field     *)
(* only: build_id is the id of the one build queued (or the one resumed),  *)
(* and reason and publish_log are as they were loaded.                     *)
(***************************************************************************)
C8_SuccessWritesStateOnly ==
  (Finished /\ Polls # {} /\ PolledSucceeded) =>
    /\ result = "returned"
    /\ trace[Len(trace)].op = "update"
    /\ DOMAIN trace[Len(trace)].fields = {"state"}
    /\ db.state = "succeeded"
    /\ db.reason = loaded.reason
    /\ db.publish_log = loaded.publish_log
    /\ loaded.state = "pending" =>
         /\ Cardinality(Queues) = 1
         /\ \A q \in Queues : db.build_id = trace[q].id
    /\ LoadedTimedOut => db.build_id = loaded.build_id

\* A pending release succeeds on its second poll.
C8_Witness ==
  /\ Finished
  /\ PolledSucceeded
  /\ loaded.state = "pending"
  /\ Cardinality(Polls) = 2
  /\ db.build_id # ""

\* A release resumed after a timeout succeeds: its reason stays timeout.
C8_WitnessResumed ==
  /\ Finished
  /\ PolledSucceeded
  /\ LoadedTimedOut
  /\ db.reason = "timeout"

(***************************************************************************)
(* C9: the persisted build_id changes only in two ways: it is set to the   *)
(* id returned by the queueBuild call just made, at most once in an        *)
(* invocation, or it is cleared by the first update of an invocation       *)
(* loaded as pending or as failed with a reason other than timeout, which  *)
(* moves the state to building.  No outcome update changes it.             *)
(***************************************************************************)
SetsBuildId ==
  /\ db'.build_id # ""
  /\ trace # << >>
  /\ trace[Len(trace)].op = "queueBuild"
  /\ db'.build_id = trace[Len(trace)].id
  /\ \A k \in Updates :
       "build_id" \in DOMAIN trace[k].fields => trace[k].fields.build_id = ""

ClearsBuildId ==
  /\ db'.build_id = ""
  /\ trace = << >>
  /\ LoadedFresh
  /\ db'.state = "building"

C9_BuildIdWrites ==
  [][db'.build_id # db.build_id => (SetsBuildId \/ ClearsBuildId)]_vars

\* The recorded build was dropped and the id of a new build recorded.
C9_Witness ==
  /\ loaded.build_id # ""
  /\ db.build_id # ""
  /\ db.build_id # loaded.build_id
  /\ Queues # {}
  /\ Finished

(***************************************************************************)
(* C10: the polling loop fetches the status at most `retries` times, stops *)
(* at the first fetch that sees Completed or Cancelling and returns that   *)
(* build, and returns null exactly when `retries` fetches all saw another  *)
(* status.                                                                 *)
(***************************************************************************)
\* The loop has returned to build().
Polled == pc \in {"outcome", "throwTimeout", "getPublishLog", "updateLog",
                  "report"} \/ (Finished /\ Polls # {})

C10_PollingLoop ==
  /\ Cardinality(Polls) <= retries
  /\ \A k, l \in Polls : k < l => trace[k].status \notin TerminalStatuses
  /\ pc = "check" => i = Cardinality(Polls)
  /\ Polled =>
       /\ build = NullBuild <=> BudgetExhausted
       /\ build # NullBuild =>
            /\ build.status \in TerminalStatuses
            /\ trace[LastPoll].status = build.status
            /\ ToString(build.id) = trace[LastPoll].id

\* The last attempt of the budget is the one that sees a terminal status.
C10_Witness ==
  /\ pc = "outcome"
  /\ Cardinality(Polls) = retries
  /\ build.status = "Cancelling"

\* The budget is used up: the loop returns null.
C10_WitnessNull ==
  /\ pc = "outcome"
  /\ build = NullBuild

(***************************************************************************)
(* C11: the wait that follows the non-terminal polling attempt i (from 0)  *)
(* is retryIntervalStep * (i + 1), so the waits of an invocation do not    *)
(* decrease; no wait follows a terminal attempt.  A wait follows every     *)
(* non-terminal attempt, the last one of the budget included.              *)
(***************************************************************************)
\* The index (from 0) of the attempt made by the poll at position k.
Attempt(k) == Cardinality({l \in Polls : l < k})

\* The waits of the polling loop: the sleeps that come right after a poll.
Waits == {k \in Calls("sleep") : k > 1 /\ trace[k - 1].op = "getBuild"}

WaitsAreLinear ==
  /\ \A k \in Waits :
       /\ trace[k - 1].status \notin TerminalStatuses
       /\ trace[k].ms = retryIntervalStep * (Attempt(k - 1) + 1)
  /\ \A k, l \in Waits : k < l => trace[k].ms <= trace[l].ms
  /\ \A k \in Polls :
       (k < Len(trace) /\ trace[k].status \notin TerminalStatuses) =>
         (k + 1) \in Waits
  /\ \A k \in Polls : k > 1 => trace[k - 1].op \in {"sleep", "getBuildApi"}

C11_Backoff ==
  /\ WaitsAreLinear
  /\ (pc = "check" /\ i = retries /\ retries > 0) =>
       /\ Len(trace) \in Waits
       /\ trace[Len(trace)].ms = retryIntervalStep * retries

\* The wait after the last attempt of the budget has been taken.
C11_Witness ==
  /\ pc = "check"
  /\ i = retries
  /\ Len(trace) \in Waits
  /\ Cardinality(Waits) = retries

\* The claim as stated: in addition, no wait follows the last attempt.
C11_Original ==
  /\ WaitsAreLinear
  /\ \A k \in Waits : Attempt(k - 1) < retries - 1

(***************************************************************************)
(* The failure classification on its own: build() has persisted the        *)
(* failure of a completed build (line 70) and fetched a log text, which is *)
(* any combination of the markers; it classifies the text (line 77),       *)
(* persists log and reason (line 79) and reports (lines 81-92).            *)
(***************************************************************************)
FailedRelease ==
  [id |-> TheRelease.id, version |-> TheRelease.version,
   state |-> ReleaseState.failed, build_id |-> "1", reason |-> "",
   publish_log |-> {}]

ClassifyInit ==
  /\ publishLog \in SUBSET Markers
  /\ db = FailedRelease
  /\ release = FailedRelease
  /\ buildApi = TRUE
  /\ build = [id |-> 1, status |-> BuildStatus.Completed,
              result |-> BuildResult.Failed]
  /\ i = 0
  /\ reason = ""
  /\ pc = "classify"
  /\ queued = 1
  /\ loaded = InitRelease
  /\ trace = <<CallEvent("getPublishLog")>>
  /\ result = "running"
  /\ request = BuildRequest(TheRelease.id, ThePackage.name, TheRelease.version)
  /\ terminal = {1}

\* line 77
Classify ==
  /\ pc = "classify"
  /\ reason' = getReasonFromPublishLog(publishLog)
  /\ pc' = "updateLog"
  /\ UNCHANGED <<db, release, buildApi, build, i, publishLog, queued,
                 loaded, trace, result>>
  /\ UNCHANGED request
  /\ UNCHANGED terminal

ClassifyNext ==
  \/ Classify
  \/ UpdateLog
  \/ Report

SpecClassify == ClassifyInit /\ [][ClassifyNext]_vars

(***************************************************************************)
(* C12: the classification is the first matching rule, in the order        *)
(* EPUBLISHCONFLICT, ENOENT with 'error path package.json', 'error code    *)
(* E502', 'error code E500', else empty, for every combination of markers; *)
(* a log with both EPUBLISHCONFLICT and 'error code E502' is a             *)
(* publishConflict and the job returns without throwing.                   *)
(***************************************************************************)
HasConflict == "EPUBLISHCONFLICT" \in publishLog
HasNonPackage == {"ENOENT", "error path package.json"} \subseteq publishLog
HasE502 == "error code E502" \in publishLog
HasE500 == "error code E500" \in publishLog

Classified == pc \in {"updateLog", "report", "done"}

C12_ClassificationOrder ==
  /\ Classified =>
       /\ HasConflict => reason = "publishConflict"
       /\ (~HasConflict /\ HasNonPackage) => reason = "nonPackage"
       /\ (~HasConflict /\ ~HasNonPackage /\ HasE502) => reason = "badGateway"
       /\ (~HasConflict /\ ~HasNonPackage /\ ~HasE502 /\ HasE500) =>
            reason = "serverError"
       /\ (~HasConflict /\ ~HasNonPackage /\ ~HasE502 /\ ~HasE500) =>
            reason = ""
  /\ pc \in {"report", "done"} =>
       /\ db.reason = reason
       /\ db.publish_log = publishLog
  /\ (pc = "done" /\ HasConflict) => result = "returned"

C12_Witness ==
  /\ pc = "done"
  /\ HasConflict
  /\ HasE502
  /\ db.reason = "publishConflict"
  /\ result = "returned"

(***************************************************************************)
(* getBuildName on its own: the inputs are drawn from release ids of one   *)
(* and two digits, short package names over an alphabet with legal and     *)
(* illegal characters (and the scoped name of the example), and versions   *)
(* short or long enough for the name to pass the length limit.             *)
(***************************************************************************)
NameAlphabet == {"@", "/", "a", "#"}

SeqsUpTo(S, n) == UNION {[1..m -> S] : m \in 0..n}

PackageNames == SeqsUpTo(NameAlphabet, MaxNameLen) \cup {ThePackage.name}

\* n times the character c
Repeat(c, n) == [k \in 1..n |-> c]

VersionLengths == {0, 1} \cup ((BuildNameLength - 12)..(BuildNameLength - 6))

PackageVersions ==
  {TheRelease.version} \cup
  {head \o Repeat("1", n) :
     head \in {<< >>, <<"@">>, <<"?">>}, n \in VersionLengths}

ReleaseIds == {7, TheRelease.id}

BuildNameInit ==
  /\ \E id \in ReleaseIds, name \in PackageNames, ver \in PackageVersions :
       request = [id |-> id, package_name |-> name, package_ver |-> ver,
                  build_name |-> << >>]
  /\ pc = "getBuildName"
  /\ terminal = {}
  /\ db = InitRelease
  /\ release = InitRelease
  /\ buildApi = TRUE
  /\ build = NullBuild
  /\ i = 0
  /\ reason = ""
  /\ publishLog = {}
  /\ queued = 0
  /\ loaded = InitRelease
  /\ trace = << >>
  /\ result = "running"

\* line 131
ComputeBuildName ==
  /\ pc = "getBuildName"
  /\ request' = BuildRequest(request.id, request.package_name,
                             request.package_ver)
  /\ pc' = "named"
  /\ UNCHANGED <<db, release, locals, queued, loaded, trace, result>>
  /\ UNCHANGED terminal

BuildNameNext == ComputeBuildName

SpecBuildName == BuildNameInit /\ [][BuildNameNext]_vars

(***************************************************************************)
(* C13: the build name is at most 200 characters long, has none of the     *)
(* characters / : < > \ | ? @ *, and is rel#<id>-<name>#<version>, where   *)
(* <name> is the package name without one leading '@', with every illegal  *)
(* character replaced by '_', cut to its first 200 characters; for         *)
(* (42, '@scope/pkg', '1.2.3') it is rel#42-scope_pkg#1.2.3.               *)
(***************************************************************************)
Named == pc = "named"

\* rel#<id>-<name>#<version>, <name> without its leading '@'.
ComposedName ==
  LET name == request.package_name
      bare == IF name # << >> /\ name[1] = "@" THEN Tail(name) ELSE name
  IN  <<"r", "e", "l", "#">> \o NumberToString(request.id) \o <<"-">>
        \o bare \o <<"#">> \o request.package_ver

NotAllowed == {"/", ":", "<", ">", "\\", "|", "?", "@", "*"}

C13_BuildName ==
  Named =>
    LET name == request.build_name IN
    /\ Len(name) <= 200
    /\ Len(name) = IF Len(ComposedName) <= 200 THEN Len(ComposedName)
                   ELSE 200
    /\ \A k \in 1..Len(name) :
         /\ name[k] \notin NotAllowed
         /\ name[k] = IF ComposedName[k] \in NotAllowed THEN "_"
                      ELSE ComposedName[k]
    /\ (request.id = 42 /\ request.package_name = ThePackage.name
          /\ request.package_ver = TheRelease.version) =>
         name = <<"r", "e", "l", "#", "4", "2", "-", "s", "c", "o", "p",
                  "e", "_", "p", "k", "g", "#", "1", ".", "2", ".", "3">>

\* A scoped name whose build name is cut at the limit.
C13_Witness ==
  /\ Named
  /\ Len(request.package_name) >= 2
  /\ request.package_name[1] = "@"
  /\ Len(ComposedName) > 200
  /\ Len(request.build_name) = 200

\* The example of the specification.
C13_WitnessExample ==
  /\ Named
  /\ request.id = 42
  /\ request.package_name = ThePackage.name
  /\ request.package_ver = TheRelease.version
  /\ SubSeq(request.build_name, 1, 7) = <<"r", "e", "l", "#", "4", "2", "-">>

(***************************************************************************)
(* C14: a build is queued only when the record is in state building with   *)
(* no build_id; the queueBuild call is followed, in this order, by the     *)
(* update that persists the returned id, the fixed pre-poll delay and the  *)
(* first poll; every poll uses a non-empty build_id that is the persisted  *)
(* one; the fixed delay is taken only after a build was queued.            *)
(***************************************************************************)
\* The sleeps that are not waits of the polling loop.
PrePollSleeps == Calls("sleep") \ Waits

C14_QueueBeforePoll ==
  /\ pc = "create" => (db.state = "building" /\ db.build_id = "")
  /\ \A q \in Queues :
       /\ db.state = "building" \/ Polls # {}
       /\ trace[q - 1].op = "getBuildApi"
       /\ \A k \in Updates : k < q =>
            /\ k = 1
            /\ trace[k].fields.state = "building"
       /\ q + 1 <= Len(trace) =>
            /\ trace[q + 1].op = "update"
            /\ DOMAIN trace[q + 1].fields = {"build_id"}
            /\ trace[q + 1].fields.build_id = trace[q].id
            /\ trace[q].id # ""
       /\ q + 2 <= Len(trace) =>
            /\ trace[q + 2].op = "sleep"
            /\ trace[q + 2].ms = duration
       /\ q + 3 <= Len(trace) =>
            /\ trace[q + 3].op = "getBuild"
            /\ trace[q + 3].id = trace[q].id
       /\ \A k \in Polls : k > q + 2
  /\ pc \in {"check", "backoff"} =>
       (release.build_id # "" /\ release.build_id = db.build_id)
  /\ \A k \in Polls : trace[k].id # "" /\ trace[k].id = db.build_id
  /\ \A k \in PrePollSleeps :
       /\ k > 2
       /\ trace[k - 2].op = "queueBuild"
       /\ trace[k].ms = duration

\* A pending release: building persisted, build queued, id persisted, delay,
\* poll.
C14_Witness ==
  /\ loaded.state = "pending"
  /\ Len(trace) >= 6
  /\ trace[1].op = "update"
  /\ trace[3].op = "queueBuild"
  /\ trace[6].op = "getBuild"
  /\ PrePollSleeps = {5}

\* A resumed release polls without the fixed delay.
C14_WitnessNoDelay ==
  /\ Polls # {}
  /\ Queues = {}
  /\ PrePollSleeps = {}

(***************************************************************************)
(* C15: an invocation on a release loaded in state building with a         *)
(* build_id goes straight to polling that build_id: no update before the   *)
(* first poll, no build queued, no pre-poll delay.  Loaded in state        *)
(* building without build_id, it queues one build (exactly one once it     *)
(* polls or finishes) and writes only build_id before polling.             *)
(***************************************************************************)
LoadedBuilding == Invoked /\ loaded.state = "building"

\* The updates made before the first poll of the invocation.
UpdatesBeforePolling == {u \in Updates : \A k \in Polls : u < k}

C15_BuildingProceeds ==
  /\ (LoadedBuilding /\ loaded.build_id # "") =>
       /\ UpdatesBeforePolling = {}
       /\ Queues = {}
       /\ PrePollSleeps = {}
       /\ trace # << >> => trace[1].op = "getBuildApi"
       /\ Len(trace) >= 2 => trace[2].op = "getBuild"
       /\ \A k \in Polls : trace[k].id = loaded.build_id
  /\ (LoadedBuilding /\ loaded.build_id = "") =>
       /\ Cardinality(Queues) <= 1
       /\ (Polls # {} \/ Finished) => Cardinality(Queues) = 1
       /\ \A u \in UpdatesBeforePolling :
            DOMAIN trace[u].fields = {"build_id"}
       /\ \A k \in Polls : \E q \in Queues : trace[k].id = trace[q].id

\* After a crash while polling, the next invocation polls the same build.
C15_Witness ==
  /\ LoadedBuilding
  /\ loaded.build_id # ""
  /\ Polls # {}
  /\ Finished

\* After a crash before the build was queued, the next invocation queues it.
C15_WitnessQueued ==
  /\ LoadedBuilding
  /\ loaded.build_id = ""
  /\ Polls # {}
  /\ Finished

(***************************************************************************)
(* C16: when polling returns a build that is Cancelling, or Completed with *)
(* a result other than Succeeded and Failed, the invocation persists state *)
(* failed by an update of state alone, fetches no log, leaves reason and   *)
(* publish_log as they were loaded, and returns without throwing.          *)
(***************************************************************************)
PolledCancelled ==
  /\ Polls # {}
  /\ \/ build.status = "Cancelling"
     \/ build.status = "Completed" /\ build.result \notin {"Succeeded", "Failed"}

C16_Cancellation ==
  /\ (PolledCancelled /\ pc \in {"report", "done"}) =>
       /\ Calls("getPublishLog") = {}
       /\ \A u \in Updates :
            DOMAIN trace[u].fields \cap {"reason", "publish_log"} = {}
       /\ db.reason = loaded.reason
       /\ db.publish_log = loaded.publish_log
  /\ (PolledCancelled /\ (pc = "report" \/ Finished)) =>
       /\ db.state = "failed"
       /\ trace[Len(trace)].op = "update"
       /\ DOMAIN trace[Len(trace)].fields = {"state"}
       /\ result # "thrown"
  /\ (PolledCancelled /\ pc = "done") =>
       result \in {"returned", "crashed"}

\* A build resumed after a timeout is found Cancelling.
C16_Witness ==
  /\ Finished
  /\ PolledCancelled
  /\ build.status = "Cancelling"
  /\ result = "returned"
  /\ db.reason = "timeout"

\* A build completes as canceled.
C16_WitnessCanceled ==
  /\ Finished
  /\ PolledCancelled
  /\ build.status = "Completed"
  /\ build.result = "Canceled"
  /\ loaded.state = "pending"

(***************************************************************************)
(* One invocation after another, every external call returning and the     *)
(* process staying alive: a step of build() that can be taken is taken     *)
(* (the runtime resumes the job when the awaited promise settles), and an  *)
(* invocation starts only while the pipeline accepts another build.        *)
(***************************************************************************)
BuildStep ==
  \/ Skip
  \/ Resume
  \/ Fresh
  \/ Proceed
  \/ getBuildApi
  \/ CreateBuildPipelines
  \/ SetBuildId
  \/ PrePollSleep
  \/ getBuild
  \/ Backoff
  \/ OutOfRetries
  \/ Timeout
  \/ ThrowTimeout
  \/ Succeeded
  \/ Failed
  \/ getPublishLog
  \/ UpdateLog
  \/ Report

Invoke ==
  /\ queued < MaxBuilds
  /\ buildRelease

RunNext ==
  \/ Invoke
  \/ BuildStep

\* The release is pending, or an earlier run died right after it persisted
\* state building (line 47), before a build was queued.
RunRecords ==
  {InitRelease, [InitRelease EXCEPT !.state = ReleaseState.building]}

RunInit ==
  /\ db \in RunRecords
  /\ release = db
  /\ loaded = db
  /\ buildApi = FALSE
  /\ build = NullBuild
  /\ i = 0
  /\ reason = ""
  /\ publishLog = {}
  /\ pc = "idle"
  /\ queued = 0
  /\ trace = << >>
  /\ result = "none"
  /\ request = NoRequest
  /\ terminal = {}

SpecRun == RunInit /\ [][RunNext]_vars /\ WF_vars(BuildStep)

(***************************************************************************)
(* C17: when every external call returns, every invocation ends, having    *)
(* made at most one queueBuild call, at most `retries` status polls and at *)
(* most one log fetch; an invocation whose polls never saw a terminal      *)
(* status ends only by using up the budget, with the timeout.              *)
(***************************************************************************)
CallsAreBounded ==
  /\ Cardinality(Queues) <= 1
  /\ Cardinality(Polls) <= retries
  /\ Cardinality(Calls("getPublishLog")) <= 1

NeverTerminalEndsByBudget ==
  (pc = "done" /\ Polls # {}
     /\ \A k \in Polls : trace[k].status \notin TerminalStatuses) =>
    /\ Cardinality(Polls) = retries
    /\ result = "thrown"
    /\ db.reason = "timeout"

C17_Termination ==
  /\ [](CallsAreBounded /\ NeverTerminalEndsByBudget)
  /\ (pc = "build") ~> (pc = "done")

\* An invocation that made all the calls it can make: one build queued, the
\* whole budget polled, one log fetched.
C17_Witness ==
  /\ pc = "done"
  /\ Cardinality(Queues) = 1
  /\ Cardinality(Polls) = retries
  /\ Cardinality(Calls("getPublishLog")) = 1

(***************************************************************************)
(* C18: an invocation that ran to its end and leaves the record failed     *)
(* with reason timeout has used up its polling budget; an invocation that  *)
(* ends on a cancelled build does not leave the record failed with reason  *)
(* timeout.                                                                *)
(***************************************************************************)
RecordTimedOut == db.state = "failed" /\ db.reason = "timeout"

C18_TimeoutMeansBudgetUsed ==
  /\ (Finished /\ RecordTimedOut) => (BudgetExhausted /\ result = "thrown")
  /\ (Finished /\ PolledCancelled) => ~RecordTimedOut

(***************************************************************************)
(* C19: a build is queued only when every build queued before it has been  *)
(* seen by a poll in status Completed or Cancelling: all builds but the    *)
(* one queued last have been seen so.                                      *)
(***************************************************************************)
C19_NoOrphanedBuild ==
  \A n \in 1..(queued - 1) : n \in terminal

====
